---- MODULE Spec2Model ----
(***************************************************************************)
(* State-machine model of the OCR inference session (OcrInference in       *)
(* ocr_inference.cpp): Initialize, InferTokens (one action per decode-loop *)
(* iteration) and Close, with the LiteRT engine as a nondeterministic      *)
(* collaborator whose every call may succeed or fail.                      *)
(***************************************************************************)
EXTENDS Integers, Sequences, FiniteSets, TLC

\* ------------------------------------------------------------------------
\* Model sizes.  The program's values are MAX_SEQUENCE_LENGTH = 300,
\* VOCAB_SIZE = 6144 and HIDDEN_SIZE = 768 (ocr_inference.h:45-47); the
\* model keeps their roles and scales them down.
MAX_SEQUENCE_LENGTH == 4

VOCAB_SIZE == 4

HIDDEN_SIZE == 1

\* IMAGE_SIZE = 224 in the program (ocr_inference.h:44): an image tensor holds
\* IMAGE_SIZE x IMAGE_SIZE x 3 floats.
IMAGE_SIZE == 1

\* The program sizes encoder_hidden_states for 196 patches
\* (ocr_inference.cpp:211).
ENCODER_PATCHES == 2

\* Token ids (ocr_inference.h:48-50).
START_TOKEN_ID == 2

END_TOKEN_ID == 3

PAD_TOKEN_ID == 0

\* Content of a slot of the caller's out_tokens array that InferTokens has
\* not written.
Unwritten == -1

\* The values a logit can take (32-bit floats abstracted to an ordered set).
LogitValues == {0, 1}

\* max_tokens arguments tried by the callers: none, the smallest ones, one
\* below the sequence limit and one above it.
MaxTokensArgs == {0, 1, 2, MAX_SEQUENCE_LENGTH - 1, MAX_SEQUENCE_LENGTH + 1}

VARIABLES
    initialized_,        \* OcrInference::initialized_
    litert_,             \* OcrInference::litert_ (LiteRtObjects, or not allocated)
    embeddings_,         \* number of floats held by embeddings_
    embeddings_input_,   \* decoder embedding window, flattened
    attention_mask_,     \* decoder attention mask
    input_ids_,          \* token ids of the current decode
    out_tokens,          \* the caller's output array of the InferTokens call in progress / just returned
    max_tokens,          \* argument of the InferTokens call in progress / last
    token_count,         \* InferTokens local
    step,                \* InferTokens loop variable
    pc,                  \* "idle", or "decoding" inside the decoder loop
    lastOp,              \* the operation in progress, or the one that returned last
    ret,                 \* its return value
    entryReady,          \* IsInitialized() when lastOp was entered
    fault,               \* the step the engine made fail in lastOp ("none" if none)
    engine_log,          \* engine calls made by the operation in progress / last
    encoder_hidden_states, \* LiteRtObjects::encoder_hidden_states (H)
    engine_model,        \* the model the engine holds compiled for the session
    run_inputs,          \* the tensors the encoder and the decoder were last run on by that operation
    racing,              \* the call a second thread made inside the call in progress / last ("none" if none)
    past_end,            \* the float a read past the end of embeddings_ yields in this session
    entryResidue,        \* whether the decode state held an earlier call's tokens when lastOp was entered
    g_textPostprocessor, \* ocr_native.cpp: the TextPostprocessor, or null
    g_vocab,             \* ocr_native.cpp: the loaded vocabulary (empty if none)
    native_in,           \* argument the caller hands to the native helpers
    native_op,           \* the native helper that returned last
    native_out,          \* its result
    native_life          \* which of nativeInit and nativeClose ran last, and whether each ran before

sessionVars == <<initialized_, litert_, embeddings_, embeddings_input_,
                 attention_mask_, input_ids_, out_tokens, max_tokens, token_count,
                 step, pc, lastOp, ret, entryReady, fault, engine_log,
                 encoder_hidden_states, engine_model, run_inputs, racing,
                 entryResidue, past_end>>

engineVars == <<encoder_hidden_states, engine_model, run_inputs>>

nativeVars == <<g_textPostprocessor, g_vocab, native_in, native_op, native_out,
               native_life>>

vars == <<initialized_, litert_, embeddings_, embeddings_input_, attention_mask_,
          input_ids_, out_tokens, max_tokens, token_count, step, pc, lastOp, ret,
          entryReady, fault, engine_log, encoder_hidden_states, engine_model,
          run_inputs, racing, entryResidue, past_end, g_textPostprocessor, g_vocab, native_in,
          native_op, native_out, native_life>>

decodeVars == <<embeddings_input_, attention_mask_, input_ids_>>

callVars == <<out_tokens, max_tokens, token_count, step>>

\* ------------------------------------------------------------------------
\* LiteRtObjects: which engine objects the session holds.  The two
\* *_fully_accelerated fields are the engine's own state of the compiled
\* model held (what its IsFullyAccelerated() reports), not fields of the
\* program.
NoLiteRt ==
    [allocated |-> FALSE, env |-> FALSE,
     compiled_encoder |-> FALSE, compiled_decoder |-> FALSE,
     encoder_input_buffers |-> FALSE, encoder_output_buffers |-> FALSE,
     decoder_input_buffers |-> FALSE, decoder_output_buffers |-> FALSE,
     using_gpu |-> FALSE, encoder_using_gpu |-> FALSE, decoder_using_gpu |-> FALSE,
     encoder_fully_accelerated |-> FALSE, decoder_fully_accelerated |-> FALSE]

FreshLiteRt == [NoLiteRt EXCEPT !.allocated = TRUE]

IsInitialized == initialized_

IsUsingGpu == litert_.allocated /\ litert_.using_gpu

IsEncoderUsingGpu == litert_.allocated /\ litert_.encoder_using_gpu

IsDecoderUsingGpu == litert_.allocated /\ litert_.decoder_using_gpu

\* Compiled model handles and tensor buffers currently owned by the session.
HeldHandles ==
    {h \in {"compiled_encoder", "compiled_decoder"} : litert_[h]}

HeldBuffers ==
    {b \in {"encoder_input_buffers", "encoder_output_buffers",
            "decoder_input_buffers", "decoder_output_buffers"} : litert_[b]}

\* The engine before the models are compiled and after Close: no model, and
\* no run made.
NoModel == [encoder |-> 0, decoder |-> 0, warmup |-> 0, page |-> 0]

NoRun == [image |-> << >>, hidden |-> << >>, mask |-> << >>, emb |-> << >>]

\* The caller's out_tokens array before InferTokens writes to it.
FreshOutTokens == [i \in 0..MAX_SEQUENCE_LENGTH |-> Unwritten]

SessionInit ==
    /\ initialized_ = FALSE
    /\ litert_ = NoLiteRt
    /\ embeddings_ = 0
    /\ embeddings_input_ = << >>
    /\ attention_mask_ = << >>
    /\ input_ids_ = << >>
    /\ out_tokens = FreshOutTokens
    /\ max_tokens = 0
    /\ token_count = 0
    /\ step = 0
    /\ pc = "idle"
    /\ lastOp = "none"
    /\ ret = 0
    /\ entryReady = FALSE
    /\ fault = "none"
    /\ engine_log = << >>
    /\ encoder_hidden_states = << >>
    /\ engine_model = NoModel
    /\ run_inputs = NoRun
    /\ racing = "none"
    /\ entryResidue = FALSE
    /\ past_end = 0

\* The native helpers of ocr_native.cpp before nativeInit: no postprocessor,
\* no vocabulary, and no call made yet.
NullPostprocessor == [present |-> FALSE, halfToFullTable_ |-> << >>]

NoArgument == [kind |-> "none", value |-> << >>]

NativeIdle ==
    /\ g_textPostprocessor = NullPostprocessor
    /\ g_vocab = << >>
    /\ native_op = "none"
    /\ native_out = << >>
    /\ native_life = [last |-> "none", initialized |-> FALSE, closed |-> FALSE]

Init ==
    /\ SessionInit
    /\ NativeIdle
    /\ native_in = NoArgument

\* ------------------------------------------------------------------------
\* Engine responses during Initialize.  Every fallible step of Initialize has
\* a name; an engine schedule names the one step that fails when it is
\* executed (NoFailure: none does).
NoFailure == "none"

\* Variant: the value the decoder's IsFullyAccelerated returned is not tested.
TryCompileSteps_dec_untested ==
    <<"enc_options", "enc_set_hw", "enc_gpu_options", "enc_precision", "enc_compile",
      "enc_accel_query", "enc_fully",
      "dec_options", "dec_set_hw", "dec_gpu_options", "dec_precision", "dec_compile",
      "dec_accel_query">>

\* Variant: the value the encoder's IsFullyAccelerated returned is not tested.
TryCompileSteps_enc_untested ==
    <<"enc_options", "enc_set_hw", "enc_gpu_options", "enc_precision", "enc_compile",
      "enc_accel_query",
      "dec_options", "dec_set_hw", "dec_gpu_options", "dec_precision", "dec_compile",
      "dec_accel_query", "dec_fully">>

\* Variant: the decoder is compiled and verified before the encoder.
TryCompileSteps_decoder_first ==
    <<"dec_options", "dec_set_hw", "dec_gpu_options", "dec_precision", "dec_compile",
      "dec_accel_query", "dec_fully",
      "enc_options", "enc_set_hw", "enc_gpu_options", "enc_precision", "enc_compile",
      "enc_accel_query", "enc_fully">>

\* TryCompileWithGpu: the fallible steps in program order.  "enc_fully" and
\* "dec_fully" stand for the test of the value IsFullyAccelerated returned.
TryCompileSteps ==
    <<"enc_options", "enc_set_hw", "enc_gpu_options", "enc_precision", "enc_compile",
      "enc_accel_query", "enc_fully",
      "dec_options", "dec_set_hw", "dec_gpu_options", "dec_precision", "dec_compile",
      "dec_accel_query", "dec_fully">>

\* CreateBuffers: the four buffer lists in program order.
CreateBuffersSteps ==
    <<"encoder_input_buffers", "encoder_output_buffers",
      "decoder_input_buffers", "decoder_output_buffers">>

\* PerformWarmup: the fallible steps in program order.
WarmupSteps ==
    <<"warm_enc_write", "warm_enc_run", "warm_enc_size", "warm_enc_read",
      "warm_dec_write_hidden", "warm_dec_write_mask", "warm_dec_write_emb",
      "warm_dec_run">>

\* Steps of Initialize before and after the three helpers.
StagingSteps == <<"temp_encoder", "temp_decoder">>

\* The failures during Initialize on which it gives up: file staging, the
\* two allocations that may throw, and each engine call or reported value
\* the program tests.
InitFailures ==
    {"temp_encoder", "temp_decoder", "embeddings_alloc", "env_create", "work_alloc",
     "enc_options", "enc_set_hw", "enc_compile", "enc_accel_query", "enc_fully",
     "dec_options", "dec_compile", "dec_accel_query", "dec_fully",
     "encoder_input_buffers", "encoder_output_buffers",
     "decoder_input_buffers", "decoder_output_buffers",
     "warm_enc_write", "warm_enc_run", "warm_enc_size", "warm_enc_read",
     "warm_dec_write_hidden", "warm_dec_write_mask", "warm_dec_write_emb",
     "warm_dec_run"}

\* Steps of Initialize whose failure the program only logs (or does not look
\* at) before going on: the GPU option tuning and the decoder's
\* SetHardwareAccelerators.
InitNonFatalFailures ==
    {"enc_gpu_options", "enc_precision", "dec_set_hw", "dec_gpu_options",
     "dec_precision"}

\* The same, with the Size() query at the top of InferTokens.
NonFatalFailures == InitNonFatalFailures \cup {"enc_input_size"}

\* Steps that are not calls into the engine (file staging, allocation, the
\* test of a returned value).
NotEngineCalls ==
    {"temp_encoder", "temp_decoder", "embeddings_alloc", "work_alloc",
     "enc_fully", "dec_fully"}

\* Run the steps in order under schedule f, stopping at the first that fails:
\* ok, and the steps executed (the failing one included).
RECURSIVE RunSteps(_, _)
RunSteps(f, steps) ==
    IF steps = << >> THEN [ok |-> TRUE, done |-> << >>]
    ELSE IF Head(steps) = f /\ f \notin NonFatalFailures
         THEN [ok |-> FALSE, done |-> <<Head(steps)>>]
    ELSE LET rest == RunSteps(f, Tail(steps))
         IN  [ok |-> rest.ok, done |-> <<Head(steps)>> \o rest.done]

EngineCallsOf(done) == SelectSeq(done, LAMBDA s : s \notin NotEngineCalls)

\* bool TryCompileWithGpu(): the compiled models live in locals until both
\* have passed; only then are they moved into litert_ and the flags set.
TryCompileWithGpu(f, lr) ==
    LET r == RunSteps(f, TryCompileSteps)
        \* SetPrecision is called only when GetGpuOptions gave the options.
        skipped == IF f = "enc_gpu_options" THEN {"enc_precision"}
                   ELSE IF f = "dec_gpu_options" THEN {"dec_precision"}
                   ELSE {}
    IN  [ok |-> r.ok, done |-> SelectSeq(r.done, LAMBDA c : c \notin skipped),
         litert |-> IF r.ok
                    THEN [lr EXCEPT !.compiled_encoder = TRUE,
                                    !.compiled_decoder = TRUE,
                                    !.encoder_using_gpu = TRUE,
                                    !.decoder_using_gpu = TRUE,
                                    !.using_gpu = TRUE,
                                    !.encoder_fully_accelerated =
                                        f \notin {"enc_accel_query", "enc_fully"},
                                    !.decoder_fully_accelerated =
                                        f \notin {"dec_accel_query", "dec_fully"}]
                    ELSE lr]

\* bool CreateBuffers(): each list is stored in litert_ as soon as it is
\* created; a failure returns false and leaves the earlier lists in place.
RECURSIVE StoreBuffers(_, _, _)
StoreBuffers(lr, done, ok) ==
    IF done = << >> THEN lr
    ELSE IF Len(done) = 1 /\ ~ok THEN lr
    ELSE StoreBuffers([lr EXCEPT ![Head(done)] = TRUE], Tail(done), ok)

CreateBuffers(f, lr) ==
    LET r == RunSteps(f, CreateBuffersSteps)
    IN  [ok |-> r.ok, done |-> r.done, litert |-> StoreBuffers(lr, r.done, r.ok)]

\* Variant: the warmup's failures are not reported.
PerformWarmup_ignored(f, lr) ==
    [ok |-> TRUE, done |-> RunSteps(f, WarmupSteps).done, litert |-> lr]

\* bool PerformWarmup(): works on local vectors only.
PerformWarmup(f, lr) ==
    LET r == RunSteps(f, WarmupSteps)
    IN  [ok |-> r.ok, done |-> r.done, litert |-> lr]

\* The models (encoder_data, decoder_data) the callers hand to Initialize, by
\* what the engine makes of them: the floats the encoder and decoder output
\* buffers hold, and the value of the floats the encoder yields for the
\* warmup image and for the callers' page image.  One is the model the
\* program's sizes were written for, the other a revision with one more patch
\* and one more position.
Models ==
    {[encoder |-> ENCODER_PATCHES * HIDDEN_SIZE,
      decoder |-> MAX_SEQUENCE_LENGTH * VOCAB_SIZE,
      warmup  |-> 1, page |-> 2],
     [encoder |-> (ENCODER_PATCHES + 1) * HIDDEN_SIZE,
      decoder |-> (MAX_SEQUENCE_LENGTH + 1) * VOCAB_SIZE,
      warmup  |-> 0, page |-> 1]}

\* The model the engine holds once TryCompileWithGpu has stored the compiled
\* encoder and decoder.
CompiledModel(lr, model) ==
    IF lr.compiled_encoder /\ lr.compiled_decoder THEN model ELSE NoModel

\* Size() of the first encoder and decoder output buffers, in floats.
EncoderOutputFloats ==
    IF litert_.encoder_output_buffers THEN engine_model.encoder ELSE 0

DecoderOutputFloats ==
    IF litert_.decoder_output_buffers THEN engine_model.decoder ELSE 0

\* What a Read of the encoder's output into n floats yields after a Run on
\* the callers' image.
EncoderOutput(n) == [i \in 1..n |-> engine_model.page]

\* A step was executed.
Invoked(done, c) == \E i \in DOMAIN done : done[i] = c

\* The vectors PerformWarmup writes to the engine.
dummy_image == [i \in 1..(IMAGE_SIZE * IMAGE_SIZE * 3) |-> 0]

ZeroAttentionMask == [i \in 1..MAX_SEQUENCE_LENGTH |-> 0]

warmup_attention == [ZeroAttentionMask EXCEPT ![1] = 1]

warmup_embeddings == [i \in 1..(MAX_SEQUENCE_LENGTH * HIDDEN_SIZE) |-> 0]

\* Variant: the decoder warmup is fed zero-filled hidden states.
warmup_hidden_states_zero(encoder_output_floats, value) ==
    [i \in 1..encoder_output_floats |-> 0]

\* warmup_hidden_states: as many floats as the encoder output buffer reports,
\* zero-filled, then overwritten by the Read of the encoder's output.
warmup_hidden_states(encoder_output_floats, value) ==
    [i \in 1..encoder_output_floats |-> value]

\* What PerformWarmup ran the models on, done being the steps it executed:
\* each Run reads the input buffers written just before it.
WarmupRuns(runs, done, encoder_output_floats, value) ==
    [image  |-> IF Invoked(done, "warm_enc_run") THEN dummy_image ELSE runs.image,
     hidden |-> IF Invoked(done, "warm_dec_run")
                THEN warmup_hidden_states(encoder_output_floats, value)
                ELSE runs.hidden,
     mask   |-> IF Invoked(done, "warm_dec_run") THEN warmup_attention ELSE runs.mask,
     emb    |-> IF Invoked(done, "warm_dec_run") THEN warmup_embeddings ELSE runs.emb]

\* void Close(), as applied to the engine objects: it acts only on an
\* initialized session.
CloseLiteRt(init, lr) == IF init THEN NoLiteRt ELSE lr

\* The embedding table sizes (in floats) the callers hand to Initialize
\* (embeddings_size is not looked at, only copied): the expected
\* VOCAB_SIZE x HIDDEN_SIZE, and a table that ends one float before the end of
\* the start token's row.
EmbeddingCounts ==
    {VOCAB_SIZE * HIDDEN_SIZE, (START_TOKEN_ID + 1) * HIDDEN_SIZE - 1}

\* Working memory as allocated at the end of Initialize.
ZeroEmbeddingsInput == [i \in 1..(MAX_SEQUENCE_LENGTH * HIDDEN_SIZE) |-> 0]

PadInputIds == [i \in 1..MAX_SEQUENCE_LENGTH |-> PAD_TOKEN_ID]

\* What a read past the end of embeddings_ may yield.
GarbageValues == {0, -7}

\* What a session may find past the end of a table of emb_count floats (of
\* no account when the table is whole: no row read lies past its end).
PastEnd(emb_count) ==
    IF emb_count < VOCAB_SIZE * HIDDEN_SIZE THEN GarbageValues ELSE {0}

\* The catch block of Initialize: Close(), then return false.
InitializeCaught(init, lr, emb, done) ==
    [ret |-> FALSE, initialized |-> FALSE, litert |-> CloseLiteRt(init, lr),
     embeddings |-> IF init THEN 0 ELSE emb, working |-> FALSE, done |-> done]

InitializeFailed(lr, emb, done) ==
    [ret |-> FALSE, initialized |-> FALSE, litert |-> lr,
     embeddings |-> emb, working |-> FALSE, done |-> done]

\* bool Initialize(...) on a session that is not initialized, under engine
\* schedule f: the return value, the fields it leaves, and the steps executed.
InitializeBody(f, emb_count, lr_old, emb_old) ==
    LET staging == RunSteps(f, StagingSteps)
        lr_env  == [FreshLiteRt EXCEPT !.env = TRUE]
        gpu     == TryCompileWithGpu(f, lr_env)
        lr_gpu  == [gpu.litert EXCEPT !.using_gpu =
                        gpu.litert.encoder_using_gpu /\ gpu.litert.decoder_using_gpu]
        buf     == CreateBuffers(f, lr_gpu)
        warm    == PerformWarmup(f, buf.litert)
        d1      == staging.done \o <<"embeddings_alloc">>
        d2      == d1 \o <<"env_create">>
        d3      == d2 \o gpu.done
        d4      == d3 \o buf.done
        d5      == d4 \o warm.done
        d6      == d5 \o <<"work_alloc">>
    IN  IF ~staging.ok THEN InitializeFailed(lr_old, emb_old, staging.done)
        ELSE IF f = "embeddings_alloc" THEN InitializeCaught(FALSE, lr_old, emb_old, d1)
        ELSE IF f = "env_create" THEN InitializeFailed(FreshLiteRt, emb_count, d2)
        ELSE IF ~gpu.ok THEN InitializeFailed(gpu.litert, emb_count, d3)
        ELSE IF ~lr_gpu.using_gpu THEN InitializeFailed(lr_gpu, emb_count, d3)
        ELSE IF ~buf.ok THEN InitializeFailed(buf.litert, emb_count, d4)
        ELSE IF ~warm.ok THEN InitializeFailed(warm.litert, emb_count, d5)
        ELSE IF f = "work_alloc" THEN InitializeCaught(FALSE, warm.litert, emb_count, d6)
        ELSE [ret |-> TRUE, initialized |-> TRUE, litert |-> warm.litert,
              embeddings |-> emb_count, working |-> TRUE, done |-> d6]

\* Variant: the rejected call releases what the session holds.
InitializeAgain_released ==
    /\ pc = "idle"
    /\ initialized_
    /\ lastOp' = "Initialize"
    /\ entryReady' = initialized_
    /\ ret' = FALSE
    /\ fault' = NoFailure
    /\ engine_log' = << >>
    /\ run_inputs' = NoRun
    /\ entryResidue' = FALSE
    /\ initialized_' = FALSE
    /\ litert_' = NoLiteRt
    /\ UNCHANGED <<embeddings_, decodeVars>>
    /\ out_tokens' = FreshOutTokens
    /\ max_tokens' = 0
    /\ token_count' = 0
    /\ step' = 0
    /\ racing' = "none"
    /\ UNCHANGED <<pc, nativeVars, encoder_hidden_states, engine_model, past_end>>

\* Initialize on a session that is already initialized: the guard at its top
\* returns false before anything is looked at.
InitializeAgain ==
    /\ pc = "idle"
    /\ initialized_
    /\ lastOp' = "Initialize"
    /\ entryReady' = initialized_
    /\ ret' = FALSE
    /\ fault' = NoFailure
    /\ engine_log' = << >>
    /\ run_inputs' = NoRun
    /\ entryResidue' = FALSE
    /\ UNCHANGED <<initialized_, litert_, embeddings_, decodeVars>>
    /\ out_tokens' = FreshOutTokens
    /\ max_tokens' = 0
    /\ token_count' = 0
    /\ step' = 0
    /\ racing' = "none"
    /\ UNCHANGED <<pc, nativeVars, encoder_hidden_states, engine_model, past_end>>

\* Initialize on a session that is not initialized, the engine making step f
\* fail (if any) and the caller handing in emb_count floats of embeddings.
Initialize(f, emb_count) ==
    /\ pc = "idle"
    /\ ~initialized_
    /\ lastOp' = "Initialize"
    /\ entryReady' = initialized_
    /\ entryResidue' = FALSE
    /\ LET r == InitializeBody(f, emb_count, litert_, embeddings_)
           \* litert_ was replaced by a new LiteRtObjects, the old one and its
           \* buffers destroyed
           replaced == Invoked(r.done, "env_create")
       IN  /\ encoder_hidden_states' =
                  IF r.working THEN [i \in 1..(ENCODER_PATCHES * HIDDEN_SIZE) |-> 0]
                  ELSE IF replaced THEN << >>
                  ELSE encoder_hidden_states
           /\ IF replaced
              THEN \E model \in Models :
                      /\ engine_model' = CompiledModel(r.litert, model)
                      /\ run_inputs' =
                             WarmupRuns(NoRun, r.done, model.encoder, model.warmup)
              ELSE /\ run_inputs' = NoRun
                   /\ UNCHANGED engine_model
           /\ ret' = r.ret
           /\ initialized_' = r.initialized
           /\ litert_' = r.litert
           /\ embeddings_' = r.embeddings
           /\ IF ~Invoked(r.done, "embeddings_alloc") \/ f = "embeddings_alloc"
              THEN UNCHANGED past_end
              ELSE past_end' \in PastEnd(emb_count)
           /\ embeddings_input_' =
                  IF r.working THEN ZeroEmbeddingsInput ELSE embeddings_input_
           /\ attention_mask_' =
                  IF r.working THEN ZeroAttentionMask ELSE attention_mask_
           /\ input_ids_' = IF r.working THEN PadInputIds ELSE input_ids_
           /\ fault' = f
           /\ engine_log' = EngineCallsOf(r.done)
    /\ out_tokens' = FreshOutTokens
    /\ max_tokens' = 0
    /\ token_count' = 0
    /\ step' = 0
    /\ racing' = "none"
    /\ UNCHANGED <<pc, nativeVars>>

\* Variant: the compiled models are released before the tensor buffers.
CloseSteps_models_first ==
    <<"reset_compiled_encoder", "reset_compiled_decoder",
      "clear_encoder_input_buffers", "clear_encoder_output_buffers",
      "clear_decoder_input_buffers", "clear_decoder_output_buffers", "reset_env">>

\* void Close(): its releases on an initialized session, in program order.
CloseSteps ==
    <<"clear_encoder_input_buffers", "clear_encoder_output_buffers",
      "clear_decoder_input_buffers", "clear_decoder_output_buffers",
      "reset_compiled_encoder", "reset_compiled_decoder", "reset_env">>

Close ==
    /\ pc = "idle"
    /\ lastOp' = "Close"
    /\ entryReady' = initialized_
    /\ entryResidue' = FALSE
    /\ ret' = 0
    /\ fault' = NoFailure
    /\ IF initialized_
       THEN /\ engine_log' =
                   IF ~litert_.allocated THEN << >>
                   ELSE IF litert_.using_gpu \/ litert_.encoder_using_gpu
                               \/ litert_.decoder_using_gpu
                        THEN CloseSteps \o <<"sleep">>
                        ELSE CloseSteps
            /\ litert_' = CloseLiteRt(initialized_, litert_)
            /\ embeddings_' = 0
            /\ past_end' = 0
            /\ embeddings_input_' = << >>
            /\ attention_mask_' = << >>
            /\ input_ids_' = << >>
            /\ encoder_hidden_states' = << >>
            /\ engine_model' = NoModel
            /\ initialized_' = FALSE
       ELSE /\ engine_log' = << >>
            /\ UNCHANGED <<initialized_, litert_, embeddings_, decodeVars,
                           encoder_hidden_states, engine_model, past_end>>
    /\ run_inputs' = NoRun
    /\ out_tokens' = FreshOutTokens
    /\ max_tokens' = 0
    /\ token_count' = 0
    /\ step' = 0
    /\ racing' = "none"
    /\ UNCHANGED <<pc, nativeVars>>

\* ------------------------------------------------------------------------
\* InferTokens.

\* -std::numeric_limits<float>::infinity(): below every logit value.
NegInfinity == -1

\* The HIDDEN_SIZE floats UpdateEmbedding may read at row token_id of
\* embeddings_: the table holds distinct non-zero floats (float i is i + 1),
\* and a read past its end yields whatever the build makes of it.
EmbeddingRows(token_id, emb_count) ==
    LET embed_offset == token_id * HIDDEN_SIZE
    IN  {row \in [0..(HIDDEN_SIZE - 1) -> GarbageValues \cup 1..(VOCAB_SIZE * HIDDEN_SIZE)] :
            \A k \in 0..(HIDDEN_SIZE - 1) :
                IF embed_offset + k < emb_count
                THEN row[k] = embed_offset + k + 1
                ELSE row[k] \in GarbageValues}

\* The rows a session reads: what lies past the end of its table is the same
\* at every read.
ReadRows(token_id, emb_count, beyond) ==
    {row \in EmbeddingRows(token_id, emb_count) :
        \A k \in 0..(HIDDEN_SIZE - 1) :
            token_id * HIDDEN_SIZE + k >= emb_count => row[k] = beyond}

\* void UpdateEmbedding(int token_id, int index): copy the HIDDEN_SIZE floats
\* read at row token_id into row index of embeddings_input_.
UpdateEmbedding(emb_in, row, index) ==
    LET output_offset == index * HIDDEN_SIZE
    IN  [k \in DOMAIN emb_in |->
            IF (k - 1) \in output_offset..(output_offset + HIDDEN_SIZE - 1)
            THEN row[k - 1 - output_offset]
            ELSE emb_in[k]]

\* int FindMaxLogitToken(const float* logits, int seq_len): the scan over
\* row seq_len - 1 with a strict comparison.
RECURSIVE ScanLogits(_, _, _, _, _)
ScanLogits(logits, logits_offset, vocab_idx, max_logit, max_token) ==
    IF vocab_idx >= VOCAB_SIZE THEN max_token
    ELSE LET logit == logits[logits_offset + vocab_idx]
         IN  IF logit > max_logit
             THEN ScanLogits(logits, logits_offset, vocab_idx + 1, logit, vocab_idx)
             ELSE ScanLogits(logits, logits_offset, vocab_idx + 1, max_logit, max_token)

RECURSIVE ScanLogits_last_wins(_, _, _, _, _)
ScanLogits_last_wins(logits, logits_offset, vocab_idx, max_logit, max_token) ==
    IF vocab_idx >= VOCAB_SIZE THEN max_token
    ELSE LET logit == logits[logits_offset + vocab_idx]
         IN  IF logit >= max_logit
             THEN ScanLogits_last_wins(logits, logits_offset, vocab_idx + 1,
                                       logit, vocab_idx)
             ELSE ScanLogits_last_wins(logits, logits_offset, vocab_idx + 1,
                                       max_logit, max_token)

FindMaxLogitToken_last_wins(logits, seq_len) ==
    ScanLogits_last_wins(logits, (seq_len - 1) * VOCAB_SIZE, 0, NegInfinity,
                         PAD_TOKEN_ID)

FindMaxLogitToken(logits, seq_len) ==
    LET last_token_pos == seq_len - 1
        logits_offset  == last_token_pos * VOCAB_SIZE
    IN  ScanLogits(logits, logits_offset, 0, NegInfinity, PAD_TOKEN_ID)

\* The logits buffers the decoder may produce (MAX_SEQUENCE_LENGTH rows of
\* VOCAB_SIZE logits, flattened): row 0 is arbitrary and row k holds row 0
\* rotated by k places, so that no two rows of a buffer with distinct logits
\* are alike and every row ranges over every content.
LogitRows == [0..(VOCAB_SIZE - 1) -> LogitValues]

LogitBuffer(row) ==
    [i \in 0..(MAX_SEQUENCE_LENGTH * VOCAB_SIZE - 1) |->
        row[((i % VOCAB_SIZE) + (i \div VOCAB_SIZE)) % VOCAB_SIZE]]

ZeroLogits == [i \in 0..(MAX_SEQUENCE_LENGTH * VOCAB_SIZE - 1) |-> 0]

LogitBuffers ==
    {LogitBuffer(row) : row \in LogitRows}

\* Engine calls of the encoder stage and of one decoder iteration, in
\* program order.
\* Variant: the result of reading the encoder output is not checked.
EncoderSteps_unchecked_read == <<"enc_input_size", "enc_write", "enc_run">>

EncoderSteps == <<"enc_input_size", "enc_write", "enc_run", "enc_read">>

\* Variant: the decoder is run a second time in each iteration.
DecoderSteps_rerun ==
    <<"dec_write_hidden", "dec_write_mask", "dec_write_emb", "dec_run", "dec_run",
      "dec_read">>

\* Variant: the result of reading the logits is not checked.
DecoderSteps_unchecked_read ==
    <<"dec_write_hidden", "dec_write_mask", "dec_write_emb", "dec_run">>

DecoderSteps ==
    <<"dec_write_hidden", "dec_write_mask", "dec_write_emb", "dec_run", "dec_read">>

\* The engine calls of InferTokens that the engine can make fail.
EncoderFailures == {"enc_write", "enc_run", "enc_read"}

DecoderFailures ==
    {"dec_write_hidden", "dec_write_mask", "dec_write_emb", "dec_run", "dec_read"}

\* Variant: the guard looks at litert_ only.
Ready_litert_only(init, lr) == lr.allocated

\* The guard at the top of InferTokens.
Ready(init, lr) == init /\ lr.allocated

\* The image tensor the caller hands to InferTokens: IMAGE_SIZE x IMAGE_SIZE x 3
\* floats of a page, none of them zero.
image_data == [i \in 1..(IMAGE_SIZE * IMAGE_SIZE * 3) |-> 1]

\* Variant: the vector keeps what an earlier call left in it.
Fill_skipped(v, x) == v

\* std::fill(v.begin(), v.end(), x).
Fill(v, x) == [i \in DOMAIN v |-> x]

\* Variant: the mask entry after the new token's is set.
MarkAttention_next(mask, index) == [mask EXCEPT ![index + 2] = 1]

\* attention_mask_[index] = 1.0f.
MarkAttention(mask, index) == [mask EXCEPT ![index + 1] = 1]

\* Variant: the decoder is given zero-filled hidden states.
DecoderRun_zero_hidden(runs, done, hidden, mask, emb) ==
    IF Invoked(done, "dec_run")
    THEN [runs EXCEPT !.hidden = [i \in DOMAIN hidden |-> 0], !.mask = mask,
                      !.emb = emb]
    ELSE runs

\* What the decoder is run on in one iteration, done being the engine calls
\* the iteration made: the three vectors written to its input buffers.
DecoderRun(runs, done, hidden, mask, emb) ==
    IF Invoked(done, "dec_run")
    THEN [runs EXCEPT !.hidden = hidden, !.mask = mask, !.emb = emb]
    ELSE runs

\* Variant: the first slot receives the padding token.
WriteStartToken_pad(out) == [out EXCEPT ![0] = PAD_TOKEN_ID]

\* out_tokens[0] = START_TOKEN_ID.
WriteStartToken(out) == [out EXCEPT ![0] = START_TOKEN_ID]

\* The condition of the for loop.
LoopCondition(s) == s < MAX_SEQUENCE_LENGTH - 1

\* Variant: only a negative token ends the loop.
IsEndCondition_negative_only(next_token) == next_token < 0

\* if (next_token < 0 || next_token == END_TOKEN_ID) break;
IsEndCondition(next_token) == next_token < 0 \/ next_token = END_TOKEN_ID

\* if (token_count >= max_tokens || token_count >= MAX_SEQUENCE_LENGTH) break;
ReachedMaximum(tc, mt) == tc >= mt \/ tc >= MAX_SEQUENCE_LENGTH

\* The attention mask marks more than the start token: the decode state holds
\* the tokens a call accumulated.
Residue(mask) == \E i \in DOMAIN mask : i > 1 /\ mask[i] = 1

\* Entry of InferTokens up to the first test of the loop condition: the
\* readiness guard, the encoder stage, the reset of the decode state.
InferTokensBegin(mt, f) ==
    /\ pc = "idle"
    /\ racing' = "none"
    /\ UNCHANGED <<nativeVars, engine_model, past_end>>
    /\ lastOp' = "InferTokens"
    /\ entryReady' = initialized_
    /\ entryResidue' = Residue(attention_mask_)
    /\ max_tokens' = mt
    /\ UNCHANGED <<initialized_, litert_, embeddings_>>
    /\ IF ~Ready(initialized_, litert_)
       THEN /\ ret' = 0
            /\ pc' = "idle"
            /\ fault' = NoFailure
            /\ engine_log' = << >>
            /\ out_tokens' = FreshOutTokens
            /\ token_count' = 0
            /\ step' = 0
            /\ run_inputs' = NoRun
            /\ UNCHANGED <<decodeVars, encoder_hidden_states>>
       ELSE LET enc == RunSteps(f, EncoderSteps)
            IN  /\ engine_log' = enc.done
                /\ fault' = f
                /\ step' = 0
                /\ run_inputs' = IF Invoked(enc.done, "enc_run")
                                 THEN [NoRun EXCEPT !.image = image_data]
                                 ELSE NoRun
                /\ IF ~enc.ok
                   THEN /\ ret' = 0
                        /\ pc' = "idle"
                        /\ out_tokens' = FreshOutTokens
                        /\ token_count' = 0
                        /\ UNCHANGED <<decodeVars, encoder_hidden_states>>
                   ELSE /\ encoder_hidden_states' =
                               EncoderOutput(Len(encoder_hidden_states))
                        /\ out_tokens' = WriteStartToken(FreshOutTokens)
                        /\ input_ids_' = [Fill(input_ids_, PAD_TOKEN_ID)
                                             EXCEPT ![1] = START_TOKEN_ID]
                        /\ \E row \in ReadRows(START_TOKEN_ID, embeddings_, past_end) :
                               embeddings_input_' =
                                   UpdateEmbedding(Fill(embeddings_input_, 0), row, 0)
                        /\ attention_mask_' = MarkAttention(Fill(attention_mask_, 0), 0)
                        /\ token_count' = 1
                        /\ IF LoopCondition(0)
                           THEN pc' = "decoding" /\ ret' = 0
                           ELSE pc' = "idle" /\ ret' = 1

\* One iteration of the decoder loop, up to the next test of the loop
\* condition; every break and the loop's end lead to the return.
DecodeStep(f, logits) ==
    /\ pc = "decoding"
    /\ UNCHANGED <<racing, nativeVars, encoder_hidden_states, engine_model, past_end>>
    /\ UNCHANGED <<initialized_, litert_, embeddings_, max_tokens, lastOp, entryReady,
                   entryResidue>>
    /\ LET dec        == RunSteps(f, DecoderSteps)
           next_token == FindMaxLogitToken(logits, token_count)
           next_index == token_count
       IN  /\ engine_log' = engine_log \o dec.done
           /\ fault' = f
           /\ run_inputs' = DecoderRun(run_inputs, dec.done, encoder_hidden_states,
                                       attention_mask_, embeddings_input_)
           /\ IF ~dec.ok \/ IsEndCondition(next_token)
              THEN /\ pc' = "idle"
                   /\ ret' = token_count
                   /\ UNCHANGED <<decodeVars, out_tokens, token_count, step>>
              ELSE /\ out_tokens' = [out_tokens EXCEPT ![next_index] = next_token]
                   /\ input_ids_' = [input_ids_ EXCEPT ![next_index + 1] = next_token]
                   /\ \E row \in ReadRows(next_token, embeddings_, past_end) :
                          embeddings_input_' =
                              UpdateEmbedding(embeddings_input_, row, next_index)
                   /\ attention_mask_' = MarkAttention(attention_mask_, next_index)
                   /\ token_count' = token_count + 1
                   /\ IF ReachedMaximum(token_count + 1, max_tokens)
                      THEN /\ step' = step
                           /\ pc' = "idle"
                           /\ ret' = token_count + 1
                      ELSE /\ step' = step + 1
                           /\ IF LoopCondition(step + 1)
                              THEN pc' = "decoding" /\ ret' = ret
                              ELSE pc' = "idle" /\ ret' = token_count + 1

Next ==
    \/ \E f \in InitFailures \cup InitNonFatalFailures \cup {NoFailure},
          n \in EmbeddingCounts : Initialize(f, n)
    \/ InitializeAgain
    \/ \E mt \in MaxTokensArgs,
          f \in EncoderFailures \cup {"enc_input_size", NoFailure} :
          InferTokensBegin(mt, f)
    \/ \E f \in DecoderFailures : DecodeStep(f, ZeroLogits)
    \/ \E l \in LogitBuffers : DecodeStep(NoFailure, l)
    \/ Close

Spec == Init /\ [][Next]_vars

\* InferTokens keeps running once it is in its loop: every engine call blocks
\* and returns.
DecodeLoop ==
    \E f \in DecoderFailures \cup {NoFailure}, l \in LogitBuffers : DecodeStep(f, l)

FairSpec == Spec /\ WF_vars(DecodeLoop)

\* ------------------------------------------------------------------------
\* Two threads on one session.  InferTokens and Close take no lock and test
\* nothing but initialized_ and litert_, so a call made by a second thread
\* while a first one is inside the decoder loop runs at once, on the same
\* members.  The second thread's call is taken whole, between two iterations
\* of the first.

\* The engine schedules of the second thread's InferTokens: its encoder run
\* fails (it returns 0), or its first decoder write fails (it returns 1).
RacingFailures == {"enc_run", "dec_write_hidden"}

\* InferTokens by a second thread: it passes the guard, writes the encoder
\* input buffer and, the encoder stage done, reads into H and resets the
\* decode state the first thread is working on.  Its token_count, step and
\* out_tokens are its own.
RacingInferTokens(f) ==
    /\ pc = "decoding"
    /\ racing = "none"
    /\ Ready(initialized_, litert_)
    /\ racing' = "InferTokens"
    /\ IF ~RunSteps(f, EncoderSteps).ok
       THEN UNCHANGED <<decodeVars, encoder_hidden_states>>
       ELSE /\ encoder_hidden_states' = EncoderOutput(Len(encoder_hidden_states))
            /\ input_ids_' = [Fill(input_ids_, PAD_TOKEN_ID)
                                 EXCEPT ![1] = START_TOKEN_ID]
            /\ \E row \in ReadRows(START_TOKEN_ID, embeddings_, past_end) :
                   embeddings_input_' =
                       UpdateEmbedding(Fill(embeddings_input_, 0), row, 0)
            /\ attention_mask_' = MarkAttention(Fill(attention_mask_, 0), 0)
    /\ UNCHANGED <<initialized_, litert_, embeddings_, callVars, pc, lastOp, ret,
                   entryReady, fault, engine_log, engine_model, run_inputs,
                   entryResidue, past_end, nativeVars>>

\* What becomes of the first thread when the session is closed under it: it
\* goes on to use litert_, which Close has reset, and the vectors Close has
\* cleared; the build may crash there, or the call may come back with the
\* tokens it had.
ClosedUnderneath == {"crashed", "idle"}

\* Close by a second thread.
RacingClose ==
    /\ pc = "decoding"
    /\ racing = "none"
    /\ racing' = "Close"
    /\ IF initialized_
       THEN /\ litert_' = CloseLiteRt(initialized_, litert_)
            /\ embeddings_' = 0
            /\ past_end' = 0
            /\ embeddings_input_' = << >>
            /\ attention_mask_' = << >>
            /\ input_ids_' = << >>
            /\ encoder_hidden_states' = << >>
            /\ engine_model' = NoModel
            /\ initialized_' = FALSE
       ELSE UNCHANGED <<initialized_, litert_, embeddings_, decodeVars,
                        encoder_hidden_states, engine_model, past_end>>
    /\ pc' \in ClosedUnderneath
    /\ ret' = token_count
    /\ UNCHANGED <<callVars, lastOp, entryReady, fault, engine_log, run_inputs,
                   entryResidue, nativeVars>>

ConcurrentNext ==
    \/ Next
    \/ \E f \in RacingFailures : RacingInferTokens(f)
    \/ RacingClose

ConcurrentSpec == Init /\ [][ConcurrentNext]_vars

\* ------------------------------------------------------------------------
\* TextPostprocessor (text_postprocessor.cpp).  Text is a sequence of code
\* points where the code holds a std::wstring or a Java string, and a
\* sequence of bytes where it holds a std::string.

TABLE_SIZE == 127

ELLIPSIS == 8230

DOT == 46

MIDDLE_DOT == 12539

\* The assignments of initializeConversionTable after its identity loop, in
\* source order, as <<index, value>>.
TableAssignments ==
    <<
      <<33, 65281>>, <<34, 34>>, <<35, 65283>>,
      <<36, 65284>>, <<37, 65285>>, <<38, 65286>>,
      <<39, 39>>, <<40, 65288>>, <<41, 65289>>,
      <<42, 65290>>, <<43, 65291>>, <<44, 65292>>,
      <<45, 65293>>, <<46, 65294>>, <<47, 65295>>,
      <<48, 65296>>, <<49, 65297>>, <<50, 65298>>,
      <<51, 65299>>, <<52, 65300>>, <<53, 65301>>,
      <<54, 65302>>, <<55, 65303>>, <<56, 65304>>,
      <<57, 65305>>, <<58, 65306>>, <<59, 65307>>,
      <<60, 65308>>, <<61, 65309>>, <<62, 65310>>,
      <<63, 65311>>, <<64, 65312>>,
      <<65, 65313>>, <<66, 65314>>, <<67, 65315>>,
      <<68, 65316>>, <<69, 65317>>, <<70, 65318>>,
      <<71, 65319>>, <<72, 65320>>, <<73, 65321>>,
      <<74, 65322>>, <<75, 65323>>, <<76, 65324>>,
      <<77, 65325>>, <<78, 65326>>, <<79, 65327>>,
      <<80, 65328>>, <<81, 65329>>, <<82, 65330>>,
      <<83, 65331>>, <<84, 65332>>, <<85, 65333>>,
      <<86, 65334>>, <<87, 65335>>, <<88, 65336>>,
      <<89, 65337>>, <<90, 65338>>,
      <<91, 65339>>, <<92, 65340>>, <<93, 65341>>,
      <<94, 65342>>, <<95, 65343>>, <<96, 39>>,
      <<97, 65345>>, <<98, 65346>>, <<99, 65347>>,
      <<100, 65348>>, <<101, 65349>>, <<102, 65350>>,
      <<103, 65351>>, <<104, 65352>>, <<105, 65353>>,
      <<106, 65354>>, <<107, 65355>>, <<108, 65356>>,
      <<109, 65357>>, <<110, 65358>>, <<111, 65359>>,
      <<112, 65360>>, <<113, 65361>>, <<114, 65362>>,
      <<115, 65363>>, <<116, 65364>>, <<117, 65365>>,
      <<118, 65366>>, <<119, 65367>>, <<120, 65368>>,
      <<121, 65369>>, <<122, 65370>>,
      <<123, 65371>>, <<124, 65372>>, <<125, 65373>>,
      <<126, 65374>>
    >>

\* halfToFullTable_ as the constructor leaves it (indices 0..TABLE_SIZE-1):
\* the identity, overwritten by the assignments, the last one to an index
\* standing.
initializeConversionTable ==
    [i \in 0..(TABLE_SIZE - 1) |->
        LET hits == {n \in 1..Len(TableAssignments) : TableAssignments[n][1] = i}
        IN  IF hits = {} THEN i
            ELSE TableAssignments[CHOOSE n \in hits : \A m \in hits : m <= n][2]]

\* UTF-8, as std::codecvt_utf8<wchar_t> encodes and decodes it (wchar_t of
\* 32 bits): one to four bytes per code point; decoding fails on a byte
\* sequence that is not UTF-8.
Utf8EncodeChar(c) ==
    IF c < 128 THEN <<c>>
    ELSE IF c < 2048 THEN <<192 + (c \div 64), 128 + (c % 64)>>
    ELSE IF c < 65536
         THEN <<224 + (c \div 4096), 128 + ((c \div 64) % 64), 128 + (c % 64)>>
    ELSE <<240 + (c \div 262144), 128 + ((c \div 4096) % 64),
           128 + ((c \div 64) % 64), 128 + (c % 64)>>

RECURSIVE Utf8Encode(_)
Utf8Encode(wstr) ==
    IF wstr = << >> THEN << >>
    ELSE Utf8EncodeChar(Head(wstr)) \o Utf8Encode(Tail(wstr))

Continuation(bytes, i) == i <= Len(bytes) /\ bytes[i] \in 128..191

RECURSIVE Utf8Decode(_, _, _)
Utf8Decode(bytes, i, wstr) ==
    IF i > Len(bytes) THEN [ok |-> TRUE, wstr |-> wstr]
    ELSE LET b == bytes[i]
         IN  IF b < 128 THEN Utf8Decode(bytes, i + 1, Append(wstr, b))
             ELSE IF b \in 194..223 /\ Continuation(bytes, i + 1)
             THEN Utf8Decode(bytes, i + 2,
                      Append(wstr, (b - 192) * 64 + (bytes[i + 1] - 128)))
             ELSE IF /\ b \in 224..239
                     /\ Continuation(bytes, i + 1)
                     /\ Continuation(bytes, i + 2)
             THEN Utf8Decode(bytes, i + 3,
                      Append(wstr, (b - 224) * 4096 + (bytes[i + 1] - 128) * 64
                                       + (bytes[i + 2] - 128)))
             ELSE IF /\ b \in 240..244
                     /\ Continuation(bytes, i + 1)
                     /\ Continuation(bytes, i + 2)
                     /\ Continuation(bytes, i + 3)
             THEN Utf8Decode(bytes, i + 4,
                      Append(wstr, (b - 240) * 262144 + (bytes[i + 1] - 128) * 4096
                                       + (bytes[i + 2] - 128) * 64
                                       + (bytes[i + 3] - 128)))
             ELSE [ok |-> FALSE, wstr |-> wstr]

\* converter.from_bytes and converter.to_bytes of postprocess.
from_bytes(text) == Utf8Decode(text, 1, << >>)

to_bytes(wstr) == Utf8Encode(wstr)

\* std::iswspace as the C library of the target platform (Android's bionic,
\* through ICU) answers it: the code points of Unicode's White_Space.
iswspace_ascii_only(c) == c \in {9, 10, 11, 12, 13, 32}

iswspace(c) ==
    \/ c \in {9, 10, 11, 12, 13, 32, 133, 160, 5760}
    \/ (8192 <= c /\ c <= 8202)
    \/ c \in {8232, 8233, 8239, 8287, 12288}

\* c == L'.' || c == L'・'
IsDot(c) == c = DOT \/ c = MIDDLE_DOT

\* The inner while loop: counts the dots that follow (laterIndex is 0-based).
RECURSIVE ScanDots(_, _, _)
ScanDots(wtext, laterIndex, dotCount) ==
    IF laterIndex < Len(wtext) /\ IsDot(wtext[laterIndex + 1])
    THEN ScanDots(wtext, laterIndex + 1, dotCount + 1)
    ELSE [dotCount |-> dotCount, laterIndex |-> laterIndex]

IsDotRun_three(dotCount) == dotCount >= 3

IsDotRun_one(dotCount) == dotCount >= 1

\* if (dotCount >= 2)
IsDotRun(dotCount) == dotCount >= 2

EmitRun_fullwidth(result, dotCount) ==
    result \o [j \in 1..dotCount |-> initializeConversionTable[DOT]]

\* for (j < dotCount) result += L'.'
EmitRun(result, dotCount) == result \o [j \in 1..dotCount |-> DOT]

EllipsisReplacement_kept == <<ELLIPSIS>>

\* result += L"..."
EllipsisReplacement == <<DOT, DOT, DOT>>

ConvertChar_table_only(table, c) == IF c < TABLE_SIZE THEN table[c] ELSE table[0]

\* Convert half-width to full-width: the table below TABLE_SIZE, the code
\* point itself from there on.
ConvertChar(table, c) == IF c < TABLE_SIZE THEN table[c] ELSE c

\* The while loop of postprocess from index i (0-based) on.
RECURSIVE PostprocessLoop(_, _, _, _)
PostprocessLoop(table, wtext, i, result) ==
    IF i >= Len(wtext) THEN result
    ELSE LET c   == wtext[i + 1]
             run == ScanDots(wtext, i + 1, 1)
         IN  IF iswspace(c)
             THEN PostprocessLoop(table, wtext, i + 1, result)
             ELSE IF c = ELLIPSIS
             THEN PostprocessLoop(table, wtext, i + 1, result \o EllipsisReplacement)
             ELSE IF IsDot(c) /\ IsDotRun(run.dotCount)
             THEN PostprocessLoop(table, wtext, run.laterIndex,
                                  EmitRun(result, run.dotCount))
             ELSE PostprocessLoop(table, wtext, i + 1,
                                  Append(result, ConvertChar(table, c)))

\* TextPostprocessor::postprocess on a std::string; thrown: from_bytes
\* rejected the bytes (std::range_error).
postprocess(table, text) ==
    IF text = << >> THEN [thrown |-> FALSE, text |-> text]
    ELSE LET wtext == from_bytes(text)
         IN  IF ~wtext.ok THEN [thrown |-> TRUE, text |-> << >>]
             ELSE [thrown |-> FALSE,
                   text   |-> to_bytes(PostprocessLoop(table, wtext.wstr, 0, << >>))]

\* ------------------------------------------------------------------------
\* The native helpers (ocr_native.cpp).  A Java string crosses JNI as
\* modified UTF-8, which is UTF-8 for the code points of the Basic
\* Multilingual Plane other than U+0000, the only ones the model draws.
\* A JVM that cannot pin an array or copy a string raises OutOfMemoryError in
\* the caller, who then receives no result; those calls are left out.

\* Sizes of the arguments the callers try, and of the vocabulary (the
\* program's vocabulary is the table getVocabulary() returns).
MaxTextLen == 3

MaxTokenIds == 3

VocabularySize == 9

SPECIAL_TOKEN_THRESHOLD == 5

\* Entry id of the vocabulary: a bracketed name for the reserved ids, "A" and
\* "." at 7 and 8, two code points of kana elsewhere.
Fragment(id) ==
    IF id < SPECIAL_TOKEN_THRESHOLD THEN <<91, 48 + id, 93>>
    ELSE IF id = 7 THEN <<65>>
    ELSE IF id = 8 THEN <<DOT>>
    ELSE <<12354 + id, 12435>>

\* mihon::getVocabulary(): entry id is element id + 1 of the sequence.
getVocabulary == [i \in 1..VocabularySize |-> Utf8Encode(Fragment(i - 1))]

GetStringUTFChars(jstr) == Utf8Encode(jstr)

NewStringUTF(bytes) == Utf8Decode(bytes, 1, << >>).wstr

\* Code points text arguments are drawn from: space, ideographic space,
\* ellipsis, dot, middle dot, a Latin letter, a kanji.
TextCodePoints == {32, 12288, ELLIPSIS, DOT, MIDDLE_DOT, 65, 28450}

\* "A....B", "A…B", "A B", "A." and a string of each other kind of ASCII.
TextExamples ==
    { <<65, DOT, DOT, DOT, DOT, 66>>, <<65, ELLIPSIS, 66>>, <<65, 32, 66>>,
      <<65, DOT>>, <<34, 39, 96>>, <<1, 55, 126>> }

TextArguments ==
    UNION {[1..n -> TextCodePoints] : n \in 0..MaxTextLen} \cup TextExamples

TokenIds == {-1, END_TOKEN_ID, 4, SPECIAL_TOKEN_THRESHOLD, 7, 8, VocabularySize}

TokenIdArguments ==
    UNION {[1..n -> TokenIds] : n \in 0..MaxTokenIds}
        \cup { <<START_TOKEN_ID, 7, 8, END_TOKEN_ID>> }

NativeArguments ==
    {[kind |-> "text", value |-> t] : t \in TextArguments}
        \cup {[kind |-> "ids", value |-> t] : t \in TokenIdArguments}

\* nativeInit; f names the allocation that throws, if one does: the exception
\* is rethrown to the caller and what was assigned before it stays.
nativeInit(f) ==
    /\ g_textPostprocessor' =
          IF f = "make_unique" THEN g_textPostprocessor
          ELSE [present |-> TRUE, halfToFullTable_ |-> initializeConversionTable]
    /\ g_vocab' = IF f = NoFailure THEN getVocabulary ELSE g_vocab
    /\ native_op' = "nativeInit"
    /\ native_out' = << >>
    /\ native_life' = IF f = NoFailure
                      THEN [native_life EXCEPT !.last = "nativeInit", !.initialized = TRUE]
                      ELSE [native_life EXCEPT !.last = "nativeInit threw"]
    /\ UNCHANGED <<native_in, sessionVars>>

IsSpecialToken_inclusive(tokenId) == tokenId <= SPECIAL_TOKEN_THRESHOLD

\* if (tokenId < SPECIAL_TOKEN_THRESHOLD) continue;
IsSpecialToken(tokenId) == tokenId < SPECIAL_TOKEN_THRESHOLD

\* if (tokenId < static_cast<int>(g_vocab.size()))
InVocabulary(vocab, tokenId) == tokenId < Len(vocab)

\* The for loop of nativeDecodeTokens from index i (0-based) on.
RECURSIVE DecodeTokensLoop(_, _, _, _, _)
DecodeTokensLoop(vocab, tokenIds, i, tokenCount, result) ==
    IF i >= tokenCount THEN result
    ELSE LET tokenId == tokenIds[i + 1]
         IN  IF IsSpecialToken(tokenId)
             THEN DecodeTokensLoop(vocab, tokenIds, i + 1, tokenCount, result)
             ELSE IF InVocabulary(vocab, tokenId)
             THEN DecodeTokensLoop(vocab, tokenIds, i + 1, tokenCount,
                                   result \o vocab[tokenId + 1])
             ELSE DecodeTokensLoop(vocab, tokenIds, i + 1, tokenCount, result)

\* nativeDecodeTokens(tokenIdsArray, tokenCount), tokenCount being the length
\* of the array.
nativeDecodeTokens ==
    /\ native_in.kind = "ids"
    /\ native_op' = "nativeDecodeTokens"
    /\ native_out' =
          IF g_vocab # << >>
          THEN NewStringUTF(DecodeTokensLoop(g_vocab, native_in.value, 0,
                                             Len(native_in.value), << >>))
          ELSE NewStringUTF(<< >>)
    /\ UNCHANGED <<g_textPostprocessor, g_vocab, native_in, native_life, sessionVars>>

\* nativePostprocessText(inputText)
nativePostprocessText ==
    /\ native_in.kind = "text"
    /\ native_op' = "nativePostprocessText"
    /\ native_out' =
          IF ~g_textPostprocessor.present THEN native_in.value
          ELSE LET result == postprocess(g_textPostprocessor.halfToFullTable_,
                                         GetStringUTFChars(native_in.value))
               IN  IF result.thrown THEN native_in.value
                   ELSE NewStringUTF(result.text)
    /\ UNCHANGED <<g_textPostprocessor, g_vocab, native_in, native_life, sessionVars>>

\* Variant: nativeClose releases the postprocessor and keeps the vocabulary.
nativeClose_keeps_vocab ==
    /\ g_textPostprocessor' = NullPostprocessor
    /\ g_vocab' = g_vocab
    /\ native_op' = "nativeClose"
    /\ native_out' = << >>
    /\ native_life' = [native_life EXCEPT !.last = "nativeClose", !.closed = TRUE]
    /\ UNCHANGED <<native_in, sessionVars>>

\* nativeClose
nativeClose ==
    /\ g_textPostprocessor' = NullPostprocessor
    /\ g_vocab' = << >>
    /\ native_op' = "nativeClose"
    /\ native_out' = << >>
    /\ native_life' = [native_life EXCEPT !.last = "nativeClose", !.closed = TRUE]
    /\ UNCHANGED <<native_in, sessionVars>>

\* The callers of the native helpers: one argument, any order of calls.
NativeStart ==
    /\ SessionInit
    /\ NativeIdle
    /\ native_in \in NativeArguments

NativeNext ==
    \/ \E f \in {NoFailure, "make_unique", "getVocabulary"} : nativeInit(f)
    \/ nativeDecodeTokens
    \/ nativePostprocessText
    \/ nativeClose

NativeSpec == NativeStart /\ [][NativeNext]_vars

\* ------------------------------------------------------------------------
\* Properties.

Returned(op) == pc = "idle" /\ lastOp = op

Min(a, b) == IF a <= b THEN a ELSE b

DecoderInvocations == Len(SelectSeq(engine_log, LAMBDA c : c = "dec_run"))

DecoderCalls == SelectSeq(engine_log, LAMBDA c : c \in DecoderFailures)

\* C1: for an initialized session, every max_tokens >= 1 and engine responses
\* in which the encoder stage succeeds, the count n returned by InferTokens
\* satisfies 1 <= n <= min(max_tokens, MAX_SEQUENCE_LENGTH).
C1_LengthWithinLimits ==
    (Returned("InferTokens") /\ entryReady /\ max_tokens >= 1
        /\ fault \notin EncoderFailures)
    => (1 <= ret /\ ret <= Min(max_tokens, MAX_SEQUENCE_LENGTH))

\* C2: whenever InferTokens returns a non-empty sequence, its element at
\* index 0 is START_TOKEN_ID.
C2_FirstTokenIsStart ==
    (Returned("InferTokens") /\ ret > 0) => out_tokens[0] = START_TOKEN_ID

C2_Witness ==
    Returned("InferTokens") /\ ret = 3 /\ out_tokens[0] = START_TOKEN_ID
        /\ out_tokens[1] = PAD_TOKEN_ID

\* C3: every InferTokens call terminates, and performs at most
\* MAX_SEQUENCE_LENGTH - 1 decoder invocations, whatever the engine answers:
\* a call never makes more invocations than that, inside the loop its next
\* step can always be taken, and every step of the loop either returns or
\* makes one more invocation, so that under the fairness of FairSpec the
\* call returns after at most that many steps.
C3_TerminatesWithinLimit ==
    /\ [](lastOp = "InferTokens" => DecoderInvocations <= MAX_SEQUENCE_LENGTH - 1)
    /\ [](pc = "decoding" => ENABLED DecodeLoop)
    /\ [][pc = "decoding" =>
              \/ pc' = "idle"
              \/ DecoderInvocations' = DecoderInvocations + 1]_vars

C3_Witness ==
    Returned("InferTokens") /\ DecoderInvocations = MAX_SEQUENCE_LENGTH - 1
        /\ ret = MAX_SEQUENCE_LENGTH

\* The engine made the acceleration check of a compiled model fail: the query
\* itself, or the value it reported.
AccelerationFaults == {"enc_accel_query", "enc_fully", "dec_accel_query", "dec_fully"}

\* C4: if the encoder or the decoder compiles but its IsFullyAccelerated query
\* reports false or fails, Initialize returns false and the session does not
\* become ready.
C4_PartialAccelerationRejected ==
    (Returned("Initialize") /\ ~entryReady /\ fault \in AccelerationFaults)
    => (ret = FALSE /\ ~IsInitialized)

C4_Witness ==
    Returned("Initialize") /\ ~entryReady /\ fault = "dec_fully"
        /\ "dec_compile" \in {engine_log[i] : i \in DOMAIN engine_log}
        /\ ret = FALSE

\* C5: in every reachable state, IsInitialized() implies that both models are
\* compiled, that the engine reports both fully accelerated, and that
\* IsEncoderUsingGpu(), IsDecoderUsingGpu() and IsUsingGpu() are all true.
C5_ReadyImpliesFullyAccelerated ==
    IsInitialized =>
        /\ litert_.compiled_encoder /\ litert_.compiled_decoder
        /\ litert_.encoder_fully_accelerated /\ litert_.decoder_fully_accelerated
        /\ IsEncoderUsingGpu /\ IsDecoderUsingGpu /\ IsUsingGpu

C5_Witness ==
    IsInitialized /\ Returned("InferTokens") /\ ret = 2 /\ IsUsingGpu

\* C6: if any initialization step fails (file staging, environment creation,
\* compile, acceleration check, buffer creation, warmup, an allocation that
\* throws), Initialize returns false and
\* IsInitialized() stays false; from then on InferTokens is rejected (0 tokens,
\* no engine call) and only an Initialize that returns true makes the session
\* ready.
C6_FailedInitializeNotReady ==
    /\ []((Returned("Initialize") /\ ~entryReady /\ fault \in InitFailures)
            => (ret = FALSE /\ ~IsInitialized))
    /\ [][(~IsInitialized /\ lastOp' = "InferTokens")
            => (pc' = "idle" /\ ret' = 0 /\ engine_log' = << >>)]_vars
    /\ [][(~IsInitialized /\ IsInitialized')
            => (lastOp' = "Initialize" /\ ret' = TRUE /\ fault' \notin InitFailures)]_vars

C6_Witness ==
    Returned("InferTokens") /\ ~IsInitialized /\ ret = 0
        /\ litert_.decoder_output_buffers /\ engine_log = << >>

\* C7: whenever Initialize returns false after having acquired engine
\* resources, the session holds no compiled model handle and no tensor buffer
\* at the moment Initialize returns.
C7_FailedInitializeHoldsNothing ==
    (Returned("Initialize") /\ ~entryReady /\ ret = FALSE)
    => (HeldHandles = {} /\ HeldBuffers = {})

\* C8: an InferTokens call made while the session is not ready returns 0
\* tokens, makes no engine call and writes nothing to out_tokens.
C8_NotReadyRejected ==
    (lastOp = "InferTokens" /\ ~entryReady)
    => (pc = "idle" /\ ret = 0 /\ engine_log = << >> /\ out_tokens = FreshOutTokens)

C8_Witness ==
    Returned("InferTokens") /\ ~entryReady /\ litert_.allocated
        /\ litert_.compiled_encoder /\ ret = 0

\* C9: if the encoder stage of InferTokens fails (write, run or read),
\* InferTokens returns 0 tokens, never invokes the decoder and writes nothing
\* to out_tokens.
C9_EncoderFailureEmptyResult ==
    (lastOp = "InferTokens" /\ entryReady /\ fault \in EncoderFailures)
    => (pc = "idle" /\ ret = 0 /\ DecoderCalls = << >>
        /\ out_tokens = FreshOutTokens)

C9_Witness ==
    Returned("InferTokens") /\ entryReady /\ fault = "enc_read" /\ ret = 0
        /\ engine_log = <<"enc_input_size", "enc_write", "enc_run", "enc_read">>

\* The engine calls a decoder iteration makes when the engine fails call f.
RECURSIVE CallsUpTo(_, _)
CallsUpTo(f, steps) ==
    IF steps = << >> THEN << >>
    ELSE IF Head(steps) = f THEN <<f>>
    ELSE <<Head(steps)>> \o CallsUpTo(f, Tail(steps))

\* C10: if a decoder-stage write, run or read fails at some loop step,
\* InferTokens stops at once (the failing call is its last engine call) and
\* returns exactly the tokens accumulated before that step, START_TOKEN_ID
\* first, the failing step leaving them unchanged.
C10_DecoderFailurePartialResult ==
    /\ [][(pc = "decoding" /\ fault' \in DecoderFailures)
            => /\ pc' = "idle"
               /\ ret' = token_count
               /\ out_tokens' = out_tokens
               /\ engine_log' = engine_log \o
                     CallsUpTo(fault', <<"dec_write_hidden", "dec_write_mask",
                                         "dec_write_emb", "dec_run", "dec_read">>)]_vars
    /\ []((Returned("InferTokens") /\ fault \in DecoderFailures)
            => /\ ret >= 1
               /\ out_tokens[0] = START_TOKEN_ID
               /\ \A i \in 0..MAX_SEQUENCE_LENGTH :
                     IF i < ret THEN out_tokens[i] = input_ids_[i + 1]
                     ELSE out_tokens[i] = Unwritten)

C10_Witness ==
    Returned("InferTokens") /\ fault = "dec_run" /\ ret = 3
        /\ DecoderInvocations = 3 /\ out_tokens[2] # Unwritten

\* The lowest index holding the greatest value of row r of a logits buffer.
LeastArgMax(logits, r) ==
    LET row == [j \in 0..(VOCAB_SIZE - 1) |-> logits[r * VOCAB_SIZE + j]]
    IN  CHOOSE i \in 0..(VOCAB_SIZE - 1) :
            /\ \A j \in 0..(VOCAB_SIZE - 1) : row[j] <= row[i]
            /\ \A j \in 0..(i - 1) : row[j] < row[i]

\* C11: at every decode step whose decoder run succeeds, the token selected is
\* the lowest vocabulary index holding the greatest logit of row
\* (position - 1) of the logits buffer, position being the number of tokens
\* accumulated so far; ties, all logits equal included, go to the lowest
\* index.  The selected token is END_TOKEN_ID exactly when the call stops
\* there without appending, and is otherwise the token appended.
C11_LowestIndexOfMaximum ==
    [][\A l \in LogitBuffers :
          DecodeStep(NoFailure, l) =>
              LET next_token == LeastArgMax(l, token_count - 1)
              IN  IF next_token = END_TOKEN_ID
                  THEN pc' = "idle" /\ token_count' = token_count
                  ELSE /\ token_count' = token_count + 1
                       /\ out_tokens'[token_count] = next_token]_vars

C11_Witness ==
    /\ pc = "decoding"
    /\ token_count = 3
    /\ out_tokens[1] = 1
    /\ out_tokens[2] = PAD_TOKEN_ID

\* ------------------------------------------------------------------------
\* Properties of the native helpers.

\* Normalize of the specification: what the postprocessor makes of a text.
Normalize(s) ==
    NewStringUTF(postprocess(initializeConversionTable, GetStringUTFChars(s)).text)

\* nativePostprocessText has just normalised native_in.value into native_out.
Normalized == native_op = "nativePostprocessText" /\ g_textPostprocessor.present

Before(s, i) == SubSeq(s, 1, i - 1)

After(s, j) == SubSeq(s, j + 1, Len(s))

\* The full-width counterpart of a printable ASCII code point.
FullWidth(c) == c + 65248

\* The white space of Unicode (property White_Space).
WhiteSpace ==
    (9..13) \cup {32, 133, 160, 5760} \cup (8192..8202)
        \cup {8232, 8233, 8239, 8287, 12288}

\* s[i..j] is a maximal run of dots and middle dots.
MaximalDotRun(s, i, j) ==
    /\ \A n \in i..j : IsDot(s[n])
    /\ i = 1 \/ ~IsDot(s[i - 1])
    /\ j = Len(s) \/ ~IsDot(s[j + 1])

\* C12: Normalize is idempotent: normalising a normalised text changes
\* nothing.
C12_NormalizeIdempotent ==
    Normalized => Normalize(native_out) = native_out

\* The text of a vocabulary entry.
VocabularyText(vocab, id) == NewStringUTF(vocab[id + 1])

RECURSIVE ConcatFragments(_, _)
ConcatFragments(vocab, ids) ==
    IF ids = << >> THEN << >>
    ELSE ConcatFragments(vocab, SubSeq(ids, 1, Len(ids) - 1))
             \o VocabularyText(vocab, ids[Len(ids)])

\* C13: DecodeTokens returns, for every sequence of ids, the concatenation in
\* order and without separators of the vocabulary entries of the ids from
\* SPECIAL_TOKEN_THRESHOLD up to the vocabulary size; every other id, negative
\* or too large, contributes nothing; [2,7,8,3] gives "A." when entries 7 and
\* 8 are "A" and ".".
C13_DecodeTokensConcatenation ==
    native_op = "nativeDecodeTokens" =>
        /\ native_out =
              ConcatFragments(g_vocab,
                  SelectSeq(native_in.value,
                            LAMBDA id : /\ SPECIAL_TOKEN_THRESHOLD <= id
                                        /\ id < Len(g_vocab)))
        /\ (g_vocab # << >> /\ native_in.value = <<2, 7, 8, 3>>)
               => native_out = <<65, 46>>

C13_Witness ==
    /\ native_op = "nativeDecodeTokens"
    /\ native_in.value = <<-1, 8, VocabularySize>>
    /\ native_out = <<46>>

\* C14: every maximal run of k >= 2 dots and middle dots of the input comes
\* out as exactly k ASCII dots, between the normalised text before the run
\* and the normalised text after it.
C14_DotRunsBecomeAsciiDots ==
    Normalized =>
        LET s == native_in.value
        IN  \A i \in 1..Len(s) : \A j \in (i + 1)..Len(s) :
                MaximalDotRun(s, i, j) =>
                    native_out = Normalize(Before(s, i))
                                     \o [n \in 1..(j - i + 1) |-> 46]
                                     \o Normalize(After(s, j))

C14_Witness ==
    /\ Normalized
    /\ native_in.value = <<65, DOT, MIDDLE_DOT>>
    /\ native_out = <<FullWidth(65), 46, 46>>

\* C15: an ASCII dot with no dot or middle dot next to it comes out as the
\* full-width dot U+FF0E; "A." becomes full-width A, full-width dot.
C15_LoneDotBecomesFullWidth ==
    Normalized =>
        LET s == native_in.value
        IN  /\ \A i \in 1..Len(s) :
                   (s[i] = 46 /\ MaximalDotRun(s, i, i)) =>
                       native_out = Normalize(Before(s, i)) \o <<FullWidth(46)>>
                                        \o Normalize(After(s, i))
            /\ s = <<65, 46>> => native_out = <<FullWidth(65), FullWidth(46)>>

C15_Witness ==
    /\ Normalized
    /\ native_in.value = <<DOT, 65, DOT>>
    /\ native_out = <<FullWidth(46), FullWidth(65), FullWidth(46)>>

\* C16 as stated: Normalize("A....B") is the string "A....B" itself, Latin
\* letters A and B around four ASCII dots.
C16_FourDotsExample ==
    (Normalized /\ native_in.value = <<65, 46, 46, 46, 46, 66>>)
        => native_out = <<65, 46, 46, 46, 46, 66>>

\* C16, amended: Normalize("A....B") keeps the four dots as four ASCII dots
\* and turns the letters into full-width A and full-width B.
C16_FourDotsKept ==
    (Normalized /\ native_in.value = <<65, 46, 46, 46, 46, 66>>)
        => native_out = <<FullWidth(65), 46, 46, 46, 46, FullWidth(66)>>

C16_Witness ==
    /\ Normalized
    /\ native_in.value = <<65, 46, 46, 46, 46, 66>>
    /\ SubSeq(native_out, 2, 5) = <<46, 46, 46, 46>>

\* C17: every ellipsis U+2026 of the input comes out as exactly three ASCII
\* dots whatever stands next to it, and no U+2026 is in the output.
C17_EllipsisBecomesThreeDots ==
    Normalized =>
        LET s == native_in.value
        IN  /\ \A i \in 1..Len(s) :
                   s[i] = 8230 =>
                       native_out = Normalize(Before(s, i)) \o <<46, 46, 46>>
                                        \o Normalize(After(s, i))
            /\ \A n \in 1..Len(native_out) : native_out[n] # 8230

C17_Witness ==
    /\ Normalized
    /\ native_in.value = <<DOT, ELLIPSIS, DOT>>
    /\ native_out = <<FullWidth(46), 46, 46, 46, FullWidth(46)>>

\* C18: a white-space code point of the input contributes nothing to the
\* output, and the output holds no white-space code point.
C18_WhitespaceRemoved ==
    Normalized =>
        LET s == native_in.value
        IN  /\ \A i \in 1..Len(s) :
                   s[i] \in WhiteSpace =>
                       native_out = Normalize(Before(s, i)) \o Normalize(After(s, i))
            /\ \A n \in 1..Len(native_out) : native_out[n] \notin WhiteSpace

C18_Witness ==
    /\ Normalized
    /\ native_in.value = <<DOT, 12288, DOT>>
    /\ native_out = <<FullWidth(46), FullWidth(46)>>

\* C19: the conversion table maps every ASCII digit, letter and punctuation
\* code point (0x21..0x7E) to the code point 0xFEE0 above it, and every code
\* point below 0x20 to itself.
C19_TableIsFullWidth ==
    g_textPostprocessor.present =>
        /\ \A c \in 33..126 : g_textPostprocessor.halfToFullTable_[c] = FullWidth(c)
        /\ \A c \in 0..31 : g_textPostprocessor.halfToFullTable_[c] = c

\* C20: a code point above 126 that is neither white space nor the ellipsis
\* nor part of a run of two or more dots and middle dots (a lone middle dot
\* included) comes out as itself, once, at its place between the normalised
\* text before it and the normalised text after it.
C20_OtherCodePointsUnchanged ==
    Normalized =>
        LET s == native_in.value
        IN  \A i \in 1..Len(s) :
                (/\ s[i] > 126
                 /\ s[i] \notin WhiteSpace
                 /\ s[i] # 8230
                 /\ IsDot(s[i]) => MaximalDotRun(s, i, i))
                    => native_out = Normalize(Before(s, i)) \o <<s[i]>>
                                        \o Normalize(After(s, i))

C20_Witness ==
    /\ Normalized
    /\ native_in.value = <<28450, MIDDLE_DOT, 65>>
    /\ native_out = <<28450, MIDDLE_DOT, FullWidth(65)>>

\* ------------------------------------------------------------------------
\* Properties of the session's lifecycle and of its decode state.

\* The stages of initialization in the order the design gives them, each with
\* the engine calls it makes and the failures that make it fail.
InitializationStages ==
    <<[name |-> "compile encoder",
       calls |-> {"enc_options", "enc_set_hw", "enc_gpu_options", "enc_precision",
                  "enc_compile"},
       failures |-> {"enc_options", "enc_set_hw", "enc_compile"}],
      [name |-> "verify encoder",
       calls |-> {"enc_accel_query"},
       failures |-> {"enc_accel_query", "enc_fully"}],
      [name |-> "compile decoder",
       calls |-> {"dec_options", "dec_set_hw", "dec_gpu_options", "dec_precision",
                  "dec_compile"},
       failures |-> {"dec_options", "dec_compile"}],
      [name |-> "verify decoder",
       calls |-> {"dec_accel_query"},
       failures |-> {"dec_accel_query", "dec_fully"}],
      [name |-> "create buffers",
       calls |-> {"encoder_input_buffers", "encoder_output_buffers",
                  "decoder_input_buffers", "decoder_output_buffers"},
       failures |-> {"encoder_input_buffers", "encoder_output_buffers",
                     "decoder_input_buffers", "decoder_output_buffers"}],
      [name |-> "warmup",
       calls |-> {"warm_enc_write", "warm_enc_run", "warm_enc_size", "warm_enc_read",
                  "warm_dec_write_hidden", "warm_dec_write_mask",
                  "warm_dec_write_emb", "warm_dec_run"},
       failures |-> {"warm_enc_write", "warm_enc_run", "warm_enc_size",
                     "warm_enc_read", "warm_dec_write_hidden",
                     "warm_dec_write_mask", "warm_dec_write_emb", "warm_dec_run"}]>>

\* The positions in engine_log of the calls of stage k.
StageCalls(k) ==
    {i \in DOMAIN engine_log : engine_log[i] \in InitializationStages[k].calls}

\* C21: the stages of Initialize run in the fixed order compile encoder,
\* verify encoder, compile decoder, verify decoder, create buffers, warmup,
\* and a stage starts only if every earlier one ran and succeeded; the
\* session becomes ready only after all of them succeeded.  So the decoder is
\* never compiled after the encoder failed to compile or verify, and no
\* buffer is created before both models are verified.
C21_InitializationOrder ==
    (lastOp = "Initialize" /\ ~entryReady) =>
        /\ \A k \in DOMAIN InitializationStages :
               StageCalls(k) # {} =>
                   \A j \in 1..(k - 1) :
                       /\ StageCalls(j) # {}
                       /\ fault \notin InitializationStages[j].failures
                       /\ \A a \in StageCalls(j), b \in StageCalls(k) : a < b
        /\ IsInitialized =>
               \A k \in DOMAIN InitializationStages :
                   /\ StageCalls(k) # {}
                   /\ fault \notin InitializationStages[k].failures

C21_Witness ==
    /\ Returned("Initialize")
    /\ fault = "encoder_output_buffers"
    /\ StageCalls(4) # {}
    /\ StageCalls(5) # {}
    /\ StageCalls(6) = {}
    /\ ret = FALSE

\* The number of times engine call c occurs in engine_log.
Count(c) == Cardinality({i \in DOMAIN engine_log : engine_log[i] = c})

AllZero(v) == \A i \in DOMAIN v : v[i] = 0

\* An Initialize that returned true has just run the warmup pass: the encoder
\* once, then the decoder once.
WarmedUp ==
    /\ lastOp = "Initialize" /\ ~entryReady /\ ret = TRUE
    /\ Count("warm_enc_run") = 1 /\ Count("warm_dec_run") = 1
    /\ \A i, j \in DOMAIN engine_log :
           (engine_log[i] = "warm_enc_run" /\ engine_log[j] = "warm_dec_run") => i < j

\* C22 as claimed: the warmup pass of a successful Initialize runs the encoder
\* once on an all-zero image tensor and then the decoder once with hidden
\* states, attention mask and embedding window all zero-filled.
C22_WarmupAllZero ==
    (lastOp = "Initialize" /\ ~entryReady /\ ret = TRUE) =>
        /\ WarmedUp
        /\ Len(run_inputs.image) = IMAGE_SIZE * IMAGE_SIZE * 3
        /\ AllZero(run_inputs.image)
        /\ Len(run_inputs.hidden) > 0 /\ AllZero(run_inputs.hidden)
        /\ Len(run_inputs.mask) = MAX_SEQUENCE_LENGTH /\ AllZero(run_inputs.mask)
        /\ Len(run_inputs.emb) = MAX_SEQUENCE_LENGTH * HIDDEN_SIZE
        /\ AllZero(run_inputs.emb)

\* C22 as amended: the warmup pass of a successful Initialize runs the encoder
\* once on an all-zero image tensor and then the decoder once on the hidden
\* states read back from that encoder run (as many floats as the encoder
\* output buffer reports), an attention mask whose first entry is 1 and whose
\* other entries are 0, and an all-zero embedding window.
C22_WarmupInputs ==
    (lastOp = "Initialize" /\ ~entryReady /\ ret = TRUE) =>
        /\ WarmedUp
        /\ Len(run_inputs.image) = IMAGE_SIZE * IMAGE_SIZE * 3
        /\ AllZero(run_inputs.image)
        /\ Len(run_inputs.hidden) = EncoderOutputFloats
        /\ \A i \in DOMAIN run_inputs.hidden :
               run_inputs.hidden[i] = engine_model.warmup
        /\ Len(run_inputs.mask) = MAX_SEQUENCE_LENGTH
        /\ \A i \in DOMAIN run_inputs.mask :
               run_inputs.mask[i] = IF i = 1 THEN 1 ELSE 0
        /\ Len(run_inputs.emb) = MAX_SEQUENCE_LENGTH * HIDDEN_SIZE
        /\ AllZero(run_inputs.emb)

C22_Witness ==
    /\ Returned("Initialize") /\ ret = TRUE
    /\ run_inputs.hidden = [i \in 1..(ENCODER_PATCHES * HIDDEN_SIZE) |-> 1]
    /\ run_inputs.mask[1] = 1

\* litert_->decoder_logits.resize(MAX_SEQUENCE_LENGTH * VOCAB_SIZE): the floats
\* of the buffer InferTokens reads the decoder's output into.
decoder_logits_size == MAX_SEQUENCE_LENGTH * VOCAB_SIZE

\* C23: whenever InferTokens has read the encoder's output, the hidden-state
\* buffer it read into holds exactly as many floats as the encoder's output
\* buffer reports, and the logits buffer exactly as many as the decoder's
\* output buffer reports, whatever sizes the compiled models have.
C23_BuffersSizedFromEngine ==
    (lastOp = "InferTokens" /\ entryReady /\ Invoked(engine_log, "enc_read")
         /\ fault # "enc_read") =>
        /\ Len(encoder_hidden_states) = EncoderOutputFloats
        /\ decoder_logits_size = DecoderOutputFloats

\* The releases of Close: the four tensor buffer lists, and the handles.
BufferClears ==
    {"clear_encoder_input_buffers", "clear_encoder_output_buffers",
     "clear_decoder_input_buffers", "clear_decoder_output_buffers"}

HandleResets == {"reset_compiled_encoder", "reset_compiled_decoder", "reset_env"}

\* The position in engine_log of the one occurrence of c (0 if there is none).
Position(c) ==
    IF Count(c) = 1 THEN CHOOSE i \in DOMAIN engine_log : engine_log[i] = c ELSE 0

\* C24: a Close of an initialized session releases every tensor buffer list
\* first, then both compiled models (and the environment), pauses for the
\* accelerator driver after all of these releases, and leaves the session not
\* initialized and holding no buffer or handle.
C24_CloseOrder ==
    (lastOp = "Close" /\ entryReady) =>
        /\ pc = "idle"
        /\ ~IsInitialized
        /\ litert_ = NoLiteRt
        /\ \A c \in BufferClears \cup HandleResets \cup {"sleep"} : Count(c) = 1
        /\ \A b \in BufferClears, h \in HandleResets : Position(b) < Position(h)
        /\ \A c \in BufferClears \cup HandleResets : Position(c) < Position("sleep")
        /\ Position("sleep") = Len(engine_log)

C24_Witness ==
    /\ Returned("Close") /\ entryReady
    /\ Invoked(engine_log, "sleep")
    /\ Invoked(engine_log, "clear_decoder_output_buffers")

\* Everything an operation can create or release in the engine.
Held == HeldHandles \cup HeldBuffers

\* C25: compiled model handles and tensor buffers are created only by
\* Initialize and released only by Close; InferTokens creates and releases
\* none; and a Close leaves the session not initialized and holding nothing,
\* so that a new Initialize is accepted and a second Close changes nothing.
C25_CreatedByInitializeReleasedByClose ==
    [][/\ (Held' \ Held # {}) => lastOp' = "Initialize"
       /\ (Held \ Held' # {}) => lastOp' = "Close"
       /\ lastOp' = "InferTokens" => Held' = Held
       /\ lastOp' = "Close" => (~IsInitialized' /\ Held' = {})]_vars

\* C26: the decode state is reset on every call.  Throughout an InferTokens
\* call that passed its encoder stage, whatever earlier calls left behind,
\* the decode state is determined by the tokens of this call alone: input_ids_
\* holds this call's tokens followed by padding, out_tokens nothing beyond
\* them, and the attention mask and the embedding window are zero beyond
\* them; the buffer H holds what the engine returned for this call's image.
C26_DecodeStateReset ==
    (lastOp = "InferTokens" /\ entryReady /\ token_count >= 1) =>
        /\ \A i \in DOMAIN input_ids_ :
               input_ids_[i] = IF i <= token_count THEN out_tokens[i - 1]
                               ELSE PAD_TOKEN_ID
        /\ \A i \in DOMAIN out_tokens : i >= token_count => out_tokens[i] = Unwritten
        /\ \A i \in DOMAIN attention_mask_ : i > token_count => attention_mask_[i] = 0
        /\ \A k \in DOMAIN embeddings_input_ :
               k > token_count * HIDDEN_SIZE => embeddings_input_[k] = 0
        /\ encoder_hidden_states = EncoderOutput(Len(encoder_hidden_states))

C26_Witness ==
    /\ Returned("InferTokens") /\ entryReady /\ entryResidue
    /\ ret = 1
    /\ input_ids_ = [PadInputIds EXCEPT ![1] = START_TOKEN_ID]

\* The mask marks exactly the first position entries.
MarksPrefix(mask, position) ==
    /\ Len(mask) = MAX_SEQUENCE_LENGTH
    /\ \A i \in 0..(MAX_SEQUENCE_LENGTH - 1) :
           /\ mask[i + 1] = 1 <=> i < position
           /\ mask[i + 1] = 0 <=> i >= position

\* C28: at every decoder invocation inside InferTokens, position being the
\* number of tokens accumulated so far, 0 < position <= MAX_SEQUENCE_LENGTH
\* and the attention mask the decoder is run on has entry i equal to 1 if
\* i < position and to 0 otherwise.  The k-th invocation of a call is made
\* with k tokens accumulated.
C28_AttentionMaskMarksPrefix ==
    /\ (lastOp = "InferTokens" /\ pc = "decoding") =>
           /\ token_count = DecoderInvocations + 1
           /\ 0 < token_count /\ token_count <= MAX_SEQUENCE_LENGTH
           /\ MarksPrefix(attention_mask_, token_count)
    /\ (lastOp = "InferTokens" /\ DecoderInvocations >= 1) =>
           /\ DecoderInvocations <= MAX_SEQUENCE_LENGTH
           /\ MarksPrefix(run_inputs.mask, DecoderInvocations)

C28_Witness ==
    /\ lastOp = "InferTokens" /\ DecoderInvocations = MAX_SEQUENCE_LENGTH - 1
    /\ run_inputs.mask = [i \in 1..MAX_SEQUENCE_LENGTH |->
                              IF i < MAX_SEQUENCE_LENGTH THEN 1 ELSE 0]
    /\ token_count = MAX_SEQUENCE_LENGTH

\* C30: within one InferTokens call the buffer H is not modified after the
\* encoder stage: at every decoder invocation of the call, the first as the
\* last, H holds what the encoder stage read into it and the decoder is
\* given that H.
C30_HiddenStatesUnchanged ==
    (lastOp = "InferTokens" /\ DecoderInvocations >= 1) =>
        /\ encoder_hidden_states = EncoderOutput(ENCODER_PATCHES * HIDDEN_SIZE)
        /\ run_inputs.hidden = encoder_hidden_states
        /\ run_inputs.image = image_data

C30_Witness ==
    /\ Returned("InferTokens") /\ DecoderInvocations = MAX_SEQUENCE_LENGTH - 1
    /\ run_inputs.hidden = [i \in 1..(ENCODER_PATCHES * HIDDEN_SIZE) |-> 2]
    /\ ret = MAX_SEQUENCE_LENGTH

\* Row token_id of the embedding table the callers load: the HIDDEN_SIZE
\* floats at token_id * HIDDEN_SIZE, float i of the table being i + 1.
EmbeddingTable(token_id) ==
    [k \in 0..(HIDDEN_SIZE - 1) |-> token_id * HIDDEN_SIZE + k + 1]

\* Row i of an embedding window.
WindowRow(window, i) ==
    [k \in 0..(HIDDEN_SIZE - 1) |-> window[i * HIDDEN_SIZE + k + 1]]

ZeroRow == [k \in 0..(HIDDEN_SIZE - 1) |-> 0]

\* The window holds the table rows of the first position tokens of
\* out_tokens, and zeros beyond.
HoldsPrefix(window, position) ==
    /\ Len(window) = MAX_SEQUENCE_LENGTH * HIDDEN_SIZE
    /\ \A i \in 0..(MAX_SEQUENCE_LENGTH - 1) :
           WindowRow(window, i) = IF i < position
                                  THEN EmbeddingTable(out_tokens[i])
                                  ELSE ZeroRow

\* C29: at every decoder invocation inside InferTokens, row i of the embedding
\* window the decoder is run on is the embedding table's row of token i of
\* the call when i < position, and all zeros when i >= position, the tokens
\* 0..position-1 being the prefix the call would return if it stopped there.
C29_EmbeddingWindowHoldsPrefix ==
    /\ (lastOp = "InferTokens" /\ pc = "decoding") =>
           HoldsPrefix(embeddings_input_, token_count)
    /\ (lastOp = "InferTokens" /\ DecoderInvocations >= 1) =>
           HoldsPrefix(run_inputs.emb, DecoderInvocations)

\* C27: at most one request is in flight on a session: when two threads call
\* InferTokens, or InferTokens and Close, on the same session, no call of the
\* second thread reads or writes the session's tensor buffers and decode
\* state between two steps of the first thread's call.
C27_OneRequestInFlight == racing = "none"

\* ------------------------------------------------------------------------
\* Properties of the decode loop's end, of the table reads, of the status
\* queries and of the helpers' lifecycle.

\* C31: as soon as the token selected at a decode step is END_TOKEN_ID, the
\* call stops: the step returns the tokens accumulated before it, appends
\* nothing, and is the call's last decoder invocation.  So no element of
\* out_tokens written by the loop (index >= 1) is END_TOKEN_ID.
C31_StopsAtEndToken ==
    /\ [][\A l \in LogitBuffers :
             (/\ pc = "decoding"
              /\ FindMaxLogitToken(l, token_count) = END_TOKEN_ID
              /\ DecodeStep(NoFailure, l))
             => /\ pc' = "idle"
                /\ ret' = token_count
                /\ out_tokens' = out_tokens
                /\ DecoderInvocations' = DecoderInvocations + 1]_vars
    /\ [](lastOp = "InferTokens" =>
             \A i \in 1..MAX_SEQUENCE_LENGTH : out_tokens[i] # END_TOKEN_ID)

C31_Witness ==
    /\ Returned("InferTokens") /\ fault = NoFailure
    /\ ret = 2 /\ DecoderInvocations = 2
    /\ max_tokens = MAX_SEQUENCE_LENGTH + 1
    /\ out_tokens[2] = Unwritten

\* The HIDDEN_SIZE floats of row token_id lie within a table of emb_count
\* floats.
WithinTable(token_id, emb_count) ==
    token_id >= 0 /\ (token_id + 1) * HIDDEN_SIZE <= emb_count

\* C32: a ready session holds an embedding table of exactly
\* VOCAB_SIZE x HIDDEN_SIZE floats, whatever embeddings_size Initialize was
\* handed, and every row InferTokens has read from it (the start token's and
\* each appended token's) lies within the table.
C32_TableReadsWithinTable ==
    /\ IsInitialized => embeddings_ = VOCAB_SIZE * HIDDEN_SIZE
    /\ (lastOp = "InferTokens" /\ entryReady) =>
           \A i \in 0..(token_count - 1) : WithinTable(out_tokens[i], embeddings_)

\* The indices of out_tokens the call has written.
WrittenIndices == {i \in DOMAIN out_tokens : out_tokens[i] # Unwritten}

\* C33: for every max_tokens >= 1, InferTokens writes out_tokens at no index
\* >= max_tokens and at no index >= MAX_SEQUENCE_LENGTH, and when it returns
\* the indices it has written are exactly 0..n-1, n being the count returned.
C33_WritesWithinLimits ==
    (lastOp = "InferTokens" /\ max_tokens >= 1) =>
        /\ \A i \in WrittenIndices : i < max_tokens /\ i < MAX_SEQUENCE_LENGTH
        /\ pc = "idle" => WrittenIndices = 0..(ret - 1)

\* C34: in every reachable state IsUsingGpu(), IsEncoderUsingGpu() and
\* IsDecoderUsingGpu() return true only if IsInitialized() returns true; so
\* all three return false after an Initialize that failed at buffer creation
\* or at warmup, and after Close.
C34_GpuQueriesOnlyWhenReady ==
    (IsUsingGpu \/ IsEncoderUsingGpu \/ IsDecoderUsingGpu) => IsInitialized

\* C35: Initialize on a session that is already initialized returns false,
\* makes no engine call and leaves the session as it was: ready, with the
\* same model handles, buffers, embedding table, working memory and status
\* query results.
C35_InitializeAgainRejected ==
    [][(initialized_ /\ lastOp' = "Initialize")
         => /\ ret' = FALSE
            /\ engine_log' = << >>
            /\ IsInitialized'
            /\ UNCHANGED <<litert_, embeddings_, past_end, decodeVars,
                           encoder_hidden_states, engine_model>>
            /\ IsUsingGpu' = IsUsingGpu
            /\ IsEncoderUsingGpu' = IsEncoderUsingGpu
            /\ IsDecoderUsingGpu' = IsDecoderUsingGpu]_vars

C35_Witness ==
    /\ Returned("Initialize") /\ entryReady /\ ret = FALSE
    /\ IsInitialized /\ IsUsingGpu
    /\ Cardinality(HeldBuffers) = 4 /\ Cardinality(HeldHandles) = 2
    /\ engine_log = << >>

\* C36: while nativeInit has not run, or nativeClose ran after the last
\* nativeInit, nativeDecodeTokens returns the empty string for every token
\* sequence and nativePostprocessText returns its input; after a nativeInit
\* that returned normally the helpers hold the vocabulary and the
\* postprocessor of a first nativeInit, whether nativeClose ran before it or
\* not, and decode and normalise with them.
C36_HelpersLifecycle ==
    /\ native_life.last \in {"none", "nativeClose"} =>
          /\ native_op = "nativeDecodeTokens" => native_out = << >>
          /\ native_op = "nativePostprocessText" => native_out = native_in.value
    /\ native_life.last = "nativeInit" =>
          /\ g_vocab = getVocabulary
          /\ g_textPostprocessor =
                [present |-> TRUE, halfToFullTable_ |-> initializeConversionTable]
          /\ (native_op = "nativeDecodeTokens"
                 /\ native_in.value = <<START_TOKEN_ID, 7, 8, END_TOKEN_ID>>)
                => native_out = <<65, 46>>
          /\ (native_op = "nativePostprocessText" /\ native_in.value = <<65, 46>>)
                => native_out = <<FullWidth(65), FullWidth(46)>>

C36_Witness ==
    /\ native_life = [last |-> "nativeClose", initialized |-> TRUE, closed |-> TRUE]
    /\ native_op = "nativeDecodeTokens"
    /\ native_in.value = <<START_TOKEN_ID, 7, 8, END_TOKEN_ID>>
    /\ native_out = << >>

====
